---- MODULE Spec2Model ----
(***************************************************************************)
(* dirc: a directory-structure linter.                                     *)
(*   spec.py     parse_spec: indentation-based text -> DirectoryRule tree  *)
(*   compiler.py compile_to_bash: tree -> recursive validation script      *)
(* Text is modelled as sequences of one-character strings, so that         *)
(* stripping, tab expansion, pattern normalisation and glob matching are   *)
(* computed as the code computes them.                                     *)
(***************************************************************************)
EXTENDS Integers, Sequences, FiniteSets, TLC

VARIABLES
    raw_lines,               \* parse_spec: text.splitlines()
    idx0,                    \* parse_spec: loop index (0-based) of the next line
    rules,                   \* arena of DirectoryRule objects, rules[1] is the root
    stack,                   \* parse_spec: open rules, as arena indices
    indent_unit,             \* parse_spec: None or the unit width
    last_was_file_at_level,  \* parse_spec: None or a level
    kinds,                   \* observation: how each processed line was classified
    parsed,                  \* "running", "ok" (Spec returned) or "error" (SpecError)
    err_line,                \* the 1-based line number a SpecError carries, else 0
    options,                 \* CompileOptions, and spec_basename
    arg_root,                \* the script's $1 (<<>> when not supplied)
    disk,                    \* the directories on disk: the working directory and $1
    ROOT,                    \* the script's ROOT
    frames,                  \* the call stack of rule_N invocations
    result,                  \* "idle", "running", "ok" (exit 0) or "fail" (exit 1)
    stderr,                  \* the diagnostics written by fail()
    log                      \* observation: the checks made, in order

pvars == <<raw_lines, idx0, rules, stack, indent_unit, last_was_file_at_level,
           kinds, parsed, err_line>>

vvars == <<options, arg_root, disk, ROOT, frames, result, stderr, log>>

vars == <<pvars, vvars>>

----------------------------------------------------------------------------
(* Bounds of the model *)

MaxLines == 4

MaxClassLines == 3

MaxTokenLen == 4

MaxEntries == 4

----------------------------------------------------------------------------
(* Character-level helpers (Python str methods used by spec.py) *)

None == -1

TABSIZE == 4

IsSpace(c) == c \in {" ", "\t"}

Contains(s, c) == \E i \in 1..Len(s) : s[i] = c

StartsWith(s, p) == Len(s) >= Len(p) /\ SubSeq(s, 1, Len(p)) = p

EndsWith(s, p) == Len(s) >= Len(p) /\ SubSeq(s, Len(s) - Len(p) + 1, Len(s)) = p

\* str.lstrip(): drop leading whitespace
LStrip(s) ==
    LET lead == {i \in 1..Len(s) : ~IsSpace(s[i])}
    IN  IF lead = {} THEN <<>>
        ELSE SubSeq(s, CHOOSE i \in lead : \A j \in lead : i <= j, Len(s))

\* str.rstrip(): drop trailing whitespace
RStrip(s) ==
    LET keep == {i \in 1..Len(s) : ~IsSpace(s[i])}
    IN  IF keep = {} THEN <<>>
        ELSE SubSeq(s, 1, CHOOSE i \in keep : \A j \in keep : i >= j)

Strip(s) == LStrip(RStrip(s))

\* re.sub(r"\s+", "", s)
RemoveWhitespace(s) == SelectSeq(s, LAMBDA c : ~IsSpace(c))

RECURSIVE ExpandFrom(_, _, _)
ExpandFrom(s, i, col) ==
    IF i > Len(s) THEN <<>>
    ELSE IF s[i] = "\t"
         THEN LET n == TABSIZE - (col % TABSIZE)
              IN  [k \in 1..n |-> " "] \o ExpandFrom(s, i + 1, col + n)
         ELSE <<s[i]>> \o ExpandFrom(s, i + 1, col + 1)

\* _expand_tabs: str.expandtabs(4), column-aware
ExpandTabs(line) == ExpandFrom(line, 1, 0)

\* len(expanded) - len(expanded.lstrip(" "))
IndentOf(expanded) ==
    LET non == {i \in 1..Len(expanded) : expanded[i] # " "}
    IN  IF non = {} THEN Len(expanded)
        ELSE (CHOOSE i \in non : \A j \in non : i <= j) - 1

\* the inline-comment cut of parse_spec: the first '#' at the start or after
\* whitespace truncates the content
CutComment(c) ==
    LET hs == {j \in 1..Len(c) : c[j] = "#" /\ (j = 1 \/ IsSpace(c[j - 1]))}
    IN  IF hs = {} THEN c
        ELSE RStrip(SubSeq(c, 1, (CHOOSE j \in hs : \A k \in hs : j <= k) - 1))

ContentRaw(raw) ==
    LET expanded == ExpandTabs(raw)
        indent   == IndentOf(expanded)
    IN  CutComment(RStrip(SubSeq(expanded, indent + 1, Len(expanded))))

\* the lines the loop of parse_spec skips
IsBlank(raw) == Strip(raw) = <<>>

IsCommentLine(raw) == StartsWith(LStrip(raw), <<"#">>)

Skipped(raw) == IsBlank(raw) \/ IsCommentLine(raw) \/ ContentRaw(raw) = <<>>

----------------------------------------------------------------------------
(* spec.py: token classification and normalisation *)

Alnum ==
    { "a", "b", "c", "d", "e", "f", "g", "h", "i", "j", "k", "l", "m", "n", "o",
      "p", "q", "r", "s", "t", "u", "v", "w", "x", "y", "z",
      "A", "B", "C", "D", "E", "F", "G", "H", "I", "J", "K", "L", "M", "N", "O",
      "P", "Q", "R", "S", "T", "U", "V", "W", "X", "Y", "Z",
      "0", "1", "2", "3", "4", "5", "6", "7", "8", "9" }

IsAlnum(c) == c \in Alnum

\* _GLOB_MAGIC = [*?[]
glob_has_magic(s) == Contains(s, "*") \/ Contains(s, "?") \/ Contains(s, "[")

\* _EXT_SHORTHAND = ^\.[A-Za-z0-9]{1,5}$
ExtShorthand(t) ==
    /\ Len(t) >= 2 /\ Len(t) <= 6
    /\ t[1] = "."
    /\ \A i \in 2..Len(t) : IsAlnum(t[i])

IsFilePattern(token) ==
    LET t == Strip(token)
    IN  \/ ExtShorthand(t)
        \/ Contains(t, "*")
        \/ Contains(t, "?")
        \/ Contains(t, "[")
        \/ Contains(t, "{")

\* "|".join([p for p in body.split(",") if p]) for the body of one brace list
RECURSIVE JoinAlternatives(_, _)
JoinAlternatives(body, first) ==
    IF body = <<>> THEN <<>>
    ELSE LET commas == {i \in 1..Len(body) : body[i] = ","}
             cut    == IF commas = {} THEN Len(body) + 1
                       ELSE CHOOSE i \in commas : \A j \in commas : i <= j
             part   == SubSeq(body, 1, cut - 1)
             rest   == SubSeq(body, cut + 1, Len(body))
         IN  IF part = <<>> THEN JoinAlternatives(rest, first)
             ELSE (IF first THEN <<>> ELSE <<"|">>) \o part
                  \o JoinAlternatives(rest, FALSE)

\* re.sub(r"\{([^}]+)\}", "@(" + ... + ")", s): leftmost non-overlapping matches
RECURSIVE RewriteBraces(_)
RewriteBraces(s) ==
    LET opens == {i \in 1..Len(s) : s[i] = "{" /\
                    \E j \in (i + 2)..Len(s) :
                        s[j] = "}" /\ \A k \in (i + 1)..(j - 1) : s[k] # "}"}
    IN  IF opens = {} THEN s
        ELSE LET i == CHOOSE a \in opens : \A b \in opens : a <= b
                 closes == {j \in (i + 2)..Len(s) : s[j] = "}"}
                 j == CHOOSE a \in closes : \A b \in closes : a <= b
             IN  SubSeq(s, 1, i - 1) \o <<"@", "(">>
                 \o JoinAlternatives(SubSeq(s, i + 1, j - 1), TRUE) \o <<")">>
                 \o RewriteBraces(SubSeq(s, j + 1, Len(s)))

NormalizePattern(raw) ==
    LET s == RemoveWhitespace(Strip(raw))
    IN  IF s = <<"*", ".", "*">> THEN <<"*">>
        ELSE IF StartsWith(s, <<".">>) /\ ~Contains(s, "/") THEN <<"*">> \o s
        ELSE IF Contains(s, "{") /\ Contains(s, "}") THEN RewriteBraces(s)
        ELSE s

----------------------------------------------------------------------------
(* spec.py: parse_spec, one loop iteration per action *)

DirectoryRule(name) ==
    [name |-> name, subdirs |-> <<>>, file_patterns |-> <<>>, required_files |-> <<>>]

\* next_nonempty_line(i): index (1-based) of the next line that is neither blank
\* nor a comment line, or 0
NextNonemptyLine(i) ==
    LET cand == {j \in (i + 1)..Len(raw_lines) :
                    ~IsBlank(raw_lines[j]) /\ ~IsCommentLine(raw_lines[j])}
    IN  IF cand = {} THEN 0 ELSE CHOOSE j \in cand : \A k \in cand : j <= k

\* the line the loop is at, and what lines 95-117 compute from it
CurIdx == idx0 + 1

CurRaw == raw_lines[CurIdx]

CurIndent == IndentOf(ExpandTabs(CurRaw))

\* indent_unit after lines 109-110
UnitNow ==
    IF CurIndent # 0 /\ indent_unit = None THEN CurIndent ELSE indent_unit

\* BadIndent without the test of line 113
BadIndentUnchecked ==
    CurIndent # 0 /\ UnitNow <= 0

\* lines 111-116: the indentation errors
BadIndent ==
    CurIndent # 0 /\ (UnitNow <= 0 \/ CurIndent % UnitNow # 0)

CurLevel == IF CurIndent = 0 THEN 0 ELSE CurIndent \div UnitNow

\* line 119
FileHasChildren ==
    last_was_file_at_level # None /\ CurLevel > last_was_file_at_level

\* lines 122-123
PoppedStack ==
    IF Len(stack) > CurLevel + 1 THEN SubSeq(stack, 1, CurLevel + 1) ELSE stack

\* line 125
IndentJump == Len(PoppedStack) # CurLevel + 1

Raises == BadIndent \/ FileHasChildren \/ IndentJump

CurContent == Strip(ContentRaw(CurRaw))

\* line 131
DirForced == EndsWith(CurContent, <<"/">>) /\ CurContent # <<"/">>

Token == IF DirForced THEN SubSeq(CurContent, 1, Len(CurContent) - 1) ELSE CurContent

\* lines 135-144
HasChildren ==
    LET nxt == NextNonemptyLine(CurIdx)
    IN  IF nxt = 0 THEN FALSE
        ELSE LET nxt_indent == IndentOf(ExpandTabs(raw_lines[nxt]))
             IN  IF UnitNow = None THEN nxt_indent > CurIndent
                 ELSE /\ nxt_indent > CurIndent
                      /\ nxt_indent % UnitNow = 0
                      /\ (nxt_indent \div UnitNow) > CurLevel

\* Classify with the tests of lines 146 and 152 in the other order
ClassifyDotFirst ==
    IF ~DirForced /\ ~HasChildren /\ Contains(Token, ".")
       /\ ~glob_has_magic(Token) /\ ~Contains(Token, "{") THEN "required"
    ELSE IF ~DirForced /\ ~HasChildren /\ IsFilePattern(Token) THEN "pattern"
    ELSE "dir"

\* the three outcomes of lines 146-160
Classify ==
    IF ~DirForced /\ ~HasChildren /\ IsFilePattern(Token) THEN "pattern"
    ELSE IF /\ ~DirForced /\ ~HasChildren /\ Contains(Token, ".")
            /\ ~glob_has_magic(Token) /\ ~Contains(Token, "{") THEN "required"
    ELSE "dir"

Parsing == parsed = "running" /\ idx0 < Len(raw_lines)

\* lines 89-93, 102-103: blank and comment lines are passed over
ParseSkip ==
    /\ Parsing
    /\ Skipped(CurRaw)
    /\ idx0' = idx0 + 1
    /\ kinds' = Append(kinds, "skip")
    /\ UNCHANGED <<vvars, raw_lines, rules, stack, indent_unit, last_was_file_at_level,
                   parsed, err_line>>

\* lines 112, 114, 120, 126: raise SpecError(f"{source}:{idx}: ...")
ParseRaise ==
    /\ Parsing
    /\ ~Skipped(CurRaw)
    /\ Raises
    /\ parsed' = "error"
    /\ err_line' = CurIdx
    /\ indent_unit' = UnitNow
    /\ kinds' = Append(kinds, "raise")
    /\ UNCHANGED <<vvars, raw_lines, idx0, rules, stack, last_was_file_at_level>>

\* lines 146-149
ParseFilePattern ==
    /\ Parsing
    /\ ~Skipped(CurRaw)
    /\ ~Raises
    /\ Classify = "pattern"
    /\ LET parent == PoppedStack[Len(PoppedStack)]
       IN  rules' = [rules EXCEPT ![parent].file_patterns =
                        Append(@, NormalizePattern(Token))]
    /\ stack' = PoppedStack
    /\ indent_unit' = UnitNow
    /\ last_was_file_at_level' = CurLevel
    /\ idx0' = idx0 + 1
    /\ kinds' = Append(kinds, "pattern")
    /\ UNCHANGED <<vvars, raw_lines, parsed, err_line>>

\* lines 152-155
ParseRequiredFile ==
    /\ Parsing
    /\ ~Skipped(CurRaw)
    /\ ~Raises
    /\ Classify = "required"
    /\ LET parent == PoppedStack[Len(PoppedStack)]
       IN  rules' = [rules EXCEPT ![parent].required_files = Append(@, Token)]
    /\ stack' = PoppedStack
    /\ indent_unit' = UnitNow
    /\ last_was_file_at_level' = CurLevel
    /\ idx0' = idx0 + 1
    /\ kinds' = Append(kinds, "required")
    /\ UNCHANGED <<vvars, raw_lines, parsed, err_line>>

\* lines 157-160
ParseDirectory ==
    /\ Parsing
    /\ ~Skipped(CurRaw)
    /\ ~Raises
    /\ Classify = "dir"
    /\ LET parent == PoppedStack[Len(PoppedStack)]
           child  == Len(rules) + 1
       IN  /\ rules' = Append([rules EXCEPT ![parent].subdirs = Append(@, child)],
                              DirectoryRule(Token))
           /\ stack' = Append(PoppedStack, child)
    /\ indent_unit' = UnitNow
    /\ last_was_file_at_level' = None
    /\ idx0' = idx0 + 1
    /\ kinds' = Append(kinds, "dir")
    /\ UNCHANGED <<vvars, raw_lines, parsed, err_line>>

\* line 162: return Spec(root=root)
ParseReturn ==
    /\ parsed = "running"
    /\ idx0 = Len(raw_lines)
    /\ parsed' = "ok"
    /\ UNCHANGED <<vvars, raw_lines, idx0, rules, stack, indent_unit,
                   last_was_file_at_level, kinds, err_line>>

ParseStep ==
    \/ ParseSkip
    \/ ParseRaise
    \/ ParseFilePattern
    \/ ParseRequiredFile
    \/ ParseDirectory
    \/ ParseReturn

\* lines 70-75: the state parse_spec starts from
ParseInit(text) ==
    /\ raw_lines = text
    /\ idx0 = 0
    /\ rules = <<DirectoryRule(<<".">>)>>
    /\ stack = <<1>>
    /\ indent_unit = None
    /\ last_was_file_at_level = None
    /\ kinds = <<>>
    /\ parsed = "running"
    /\ err_line = 0

----------------------------------------------------------------------------
(* compiler.py: the tables compile_node renders for a node (lines 167-170,
   194-195).  A node is identified by its rule's arena index, which is the
   pre-order number _build_nodes assigns. *)

RuleNames(ids) == [i \in 1..Len(ids) |-> rules[ids[i]].name]

IsLiteralChild(c) == ~glob_has_magic(rules[c].name)

IsWildcardChild(c) == glob_has_magic(rules[c].name)

literal_children(n) == SelectSeq(rules[n].subdirs, IsLiteralChild)

wildcard_children(n) == SelectSeq(rules[n].subdirs, IsWildcardChild)

allowed_dirs(n) == RuleNames(rules[n].subdirs)

allowed_files(n) == rules[n].file_patterns \o rules[n].required_files

\* required_dirs with no child required
required_dirs_none(n) == <<>>

required_dirs(n) == RuleNames(literal_children(n))

required_files(n) == rules[n].required_files

\* lines 58-62: the ignore list always gets .git and the spec's basename
DotGit == <<".", "g", "i", "t">>

IgnoreItems ==
    LET a == options.ignore
        b == IF \E i \in 1..Len(a) : a[i] = DotGit THEN a ELSE Append(a, DotGit)
    IN  IF \E i \in 1..Len(b) : b[i] = options.spec_basename THEN b
        ELSE Append(b, options.spec_basename)

----------------------------------------------------------------------------
(* bash: [[ name == pat ]] with extglob.  Supports literals, *, ? and the
   @(a|b) alternation _normalize_pattern produces; braces are literal. *)

\* the alternatives of the body of an @( ) group
RECURSIVE SplitBar(_)
SplitBar(body) ==
    LET bars == {i \in 1..Len(body) : body[i] = "|"}
    IN  IF bars = {} THEN {body}
        ELSE LET i == CHOOSE a \in bars : \A b \in bars : a <= b
             IN  {SubSeq(body, 1, i - 1)} \cup SplitBar(SubSeq(body, i + 1, Len(body)))

RECURSIVE GlobMatch(_, _)
GlobMatch(name, pat) ==
    IF pat = <<>> THEN name = <<>>
    ELSE IF pat[1] = "*"
         THEN \E k \in 0..Len(name) :
                 GlobMatch(SubSeq(name, k + 1, Len(name)), Tail(pat))
    ELSE IF pat[1] = "?"
         THEN name # <<>> /\ GlobMatch(Tail(name), Tail(pat))
    ELSE IF /\ Len(pat) >= 3 /\ pat[1] = "@" /\ pat[2] = "("
            /\ \E j \in 3..Len(pat) : pat[j] = ")"
         THEN LET closes == {j \in 3..Len(pat) : pat[j] = ")"}
                  j == CHOOSE a \in closes : \A b \in closes : a <= b
                  rest == SubSeq(pat, j + 1, Len(pat))
              IN  \E alt \in SplitBar(SubSeq(pat, 3, j - 1)) :
                      GlobMatch(name, alt \o rest)
    ELSE name # <<>> /\ name[1] = pat[1] /\ GlobMatch(Tail(name), Tail(pat))

\* matches_any (lines 85-92)
matches_any(name, pats) == \E i \in 1..Len(pats) : GlobMatch(name, pats[i])

\* is_ignored (lines 94-97)
is_ignored(base) == matches_any(base, IgnoreItems)

----------------------------------------------------------------------------
(* The filesystem the script reads.  A directory tree is a set of entries
   [path, kind]; path is the sequence of names below the tree's root. *)

\* the segments of a path string, "." and empty segments dropped
RECURSIVE Segs(_)
Segs(s) ==
    LET slashes == {i \in 1..Len(s) : s[i] = "/"}
        cut  == IF slashes = {} THEN Len(s) + 1
                ELSE CHOOSE i \in slashes : \A j \in slashes : i <= j
        head == SubSeq(s, 1, cut - 1)
        rest == IF cut > Len(s) THEN <<>> ELSE Segs(SubSeq(s, cut + 1, Len(s)))
    IN  IF s = <<>> THEN <<>>
        ELSE IF head = <<>> \/ head = <<".">> THEN rest
        ELSE <<head>> \o rest

\* the tree "$ROOT" names: the working directory for ".", else that of $1
TreeAt(root) == IF root = <<".">> THEN disk.cwd ELSE disk.arg

\* [[ -d "$root/$rel" ]]
IsDir(root, rel) ==
    LET t == TreeAt(root)
        key == Segs(rel)
    IN  t.exists /\ (key = <<>> \/ [path |-> key, kind |-> "d"] \in t.ents)

\* [[ -f "$root/$rel" ]]
IsFile(root, rel) ==
    LET t == TreeAt(root)
    IN  t.exists /\ [path |-> Segs(rel), kind |-> "f"] \in t.ents

\* ("$path"/*) under nullglob dotglob: the direct entries of a directory
Entries(root, rel) ==
    LET t == TreeAt(root)
        key == Segs(rel)
    IN  IF ~IsDir(root, rel) THEN {}
        ELSE {e \in t.ents : /\ Len(e.path) = Len(key) + 1
                              /\ SubSeq(e.path, 1, Len(key)) = key}

\* basename_safe (lines 80-83), of an entry
BaseName(e) == e.path[Len(e.path)]

\* ${rel%/}
StripSlash(rel) ==
    IF rel # <<>> /\ rel[Len(rel)] = "/" THEN SubSeq(rel, 1, Len(rel) - 1) ELSE rel

\* Under without the separator
UnderGlued(rel, base) == StripSlash(rel) \o base

\* "${rel%/}/$base": the path a diagnostic names and a child is bound to
Under(rel, base) == StripSlash(rel) \o <<"/">> \o base

----------------------------------------------------------------------------
(* compiler.py: the generated script, one check or call per action *)

\* AllowExtra without the leniency of the root
AllowExtraEverywhereOnly(rel) == options.allow_extra_everywhere

\* lines 186-189 of compile_node
AllowExtra(rel) ==
    options.allow_extra_everywhere \/ (rel = <<".">> /\ ~options.strict_root)

\* NextPhase with the loops of lines 117 and 121 in the other order
NextPhaseFilesFirst(pc) ==
    CASE pc = "exists"    -> "req_files"
      [] pc = "req_files" -> "req_dirs"
      [] pc = "req_dirs"  -> "scan"
      [] pc = "scan"      -> "literal"
      [] pc = "literal"   -> "wild"
      [] OTHER            -> "ret"

\* the order in which rule_N and check_dir run their steps
NextPhase(pc) ==
    CASE pc = "exists"    -> "req_dirs"
      [] pc = "req_dirs"  -> "req_files"
      [] pc = "req_files" -> "scan"
      [] pc = "scan"      -> "literal"
      [] pc = "literal"   -> "wild"
      [] OTHER            -> "ret"

\* a call rule_N "$rel"
Frame(n, rel) ==
    [node |-> n, rel |-> rel, pc |-> "exists", allow_extra |-> AllowExtra(rel),
     k |-> 1, todo |-> {}, base |-> <<>>, j |-> 1, matched |-> FALSE]

Top == frames[Len(frames)]

Running(pc) == result = "running" /\ frames # <<>> /\ Top.pc = pc

SetTop(f) == [frames EXCEPT ![Len(frames)] = f]

Visit(phase, what) ==
    Append(log, [node |-> Top.node, rel |-> Top.rel, depth |-> Len(frames),
                 phase |-> phase, what |-> what])

\* fail() (lines 75-78): one line on stderr, exit 1
Fail(cause, path) ==
    /\ stderr' = Append(stderr, [cause |-> cause, path |-> path])
    /\ result' = "fail"
    /\ frames' = frames

\* a check that passed: go on to the next step
Pass ==
    /\ frames' = SetTop([Top EXCEPT !.pc = NextPhase(Top.pc)])
    /\ UNCHANGED <<result, stderr>>

\* lines 52, 67-69 and 240: ROOT="${1:-.}", the fallback, and rule_1 "."
Driver ==
    /\ parsed = "ok"
    /\ result = "idle"
    /\ LET first == IF arg_root = <<>> THEN <<".">> ELSE arg_root
           root  == IF arg_root # <<>> /\ ~disk.arg.exists THEN <<".">> ELSE first
       IN  ROOT' = root
    /\ frames' = <<Frame(1, <<".">>)>>
    /\ result' = "running"
    /\ UNCHANGED <<pvars, options, arg_root, disk, stderr, log>>

\* line 108
CheckExists ==
    /\ Running("exists")
    /\ log' = Visit(1, <<>>)
    /\ IF IsDir(ROOT, Top.rel) THEN Pass
       ELSE Fail("missing directory", Top.rel)
    /\ UNCHANGED <<pvars, options, arg_root, disk, ROOT>>

\* the first item of a list of checks that fails, or 0
FirstBad(oks) ==
    LET bad == {i \in 1..Len(oks) : ~oks[i]}
    IN  IF bad = {} THEN 0 ELSE CHOOSE i \in bad : \A j \in bad : i <= j

\* lines 117-119
CheckRequiredDirs ==
    /\ Running("req_dirs")
    /\ log' = Visit(2, <<>>)
    /\ LET req == required_dirs(Top.node)
           bad == FirstBad([i \in 1..Len(req) |->
                               IsDir(ROOT, Top.rel \o <<"/">> \o req[i])])
       IN  IF bad = 0 THEN Pass
           ELSE Fail("missing required directory", Under(Top.rel, req[bad]))
    /\ UNCHANGED <<pvars, options, arg_root, disk, ROOT>>

\* lines 121-123
CheckRequiredFiles ==
    /\ Running("req_files")
    /\ log' = Visit(3, <<>>)
    /\ LET req == required_files(Top.node)
           bad == FirstBad([i \in 1..Len(req) |->
                               IsFile(ROOT, Top.rel \o <<"/">> \o req[i])])
       IN  IF bad = 0 THEN Pass
           ELSE Fail("missing required file", Under(Top.rel, req[bad]))
    /\ UNCHANGED <<pvars, options, arg_root, disk, ROOT>>

\* Unexpected with the directory branch of the scan accepting every directory
UnexpectedFileOnly(e, n, allow_extra) ==
    /\ ~is_ignored(BaseName(e))
    /\ ~allow_extra
    /\ e.kind # "d"
    /\ ~matches_any(BaseName(e), allowed_files(n))

\* lines 134-150: whether the scan rejects an entry
Unexpected(e, n, allow_extra) ==
    /\ ~is_ignored(BaseName(e))
    /\ ~allow_extra
    /\ IF e.kind = "d" THEN ~matches_any(BaseName(e), allowed_dirs(n))
       ELSE ~matches_any(BaseName(e), allowed_files(n))

\* lines 125-151: the scan of the actual entries.  The order of the glob
\* expansion depends on the locale, so the first rejected entry is any of them.
ScanEntries ==
    /\ Running("scan")
    /\ log' = Visit(4, <<>>)
    /\ LET bad == {e \in Entries(ROOT, Top.rel) :
                      Unexpected(e, Top.node, Top.allow_extra)}
       IN  IF bad = {} THEN Pass
           ELSE \E e \in bad :
                   Fail(IF e.kind = "d" THEN "unexpected directory"
                        ELSE "unexpected file", Under(Top.rel, BaseName(e)))
    /\ UNCHANGED <<pvars, options, arg_root, disk, ROOT>>

\* lines 197-200: rule_<child> "${rel%/}/<child_name>", in declaration order
CallLiteral ==
    /\ Running("literal")
    /\ Top.k <= Len(literal_children(Top.node))
    /\ LET child == literal_children(Top.node)[Top.k]
       IN  /\ log' = Visit(5, rules[child].name)
           /\ frames' = Append(SetTop([Top EXCEPT !.k = @ + 1]),
                               Frame(child, Under(Top.rel, rules[child].name)))
    /\ UNCHANGED <<pvars, options, arg_root, disk, ROOT, result, stderr>>

\* lines 202-206: after the literal children, the wildcard loop if there is one
LiteralDone ==
    /\ Running("literal")
    /\ Top.k > Len(literal_children(Top.node))
    /\ frames' = SetTop([Top EXCEPT
                    !.pc = IF wildcard_children(Top.node) = <<>> THEN "ret"
                           ELSE NextPhase(Top.pc),
                    !.todo = IF wildcard_children(Top.node) = <<>> THEN {}
                             ELSE Entries(ROOT, Top.rel)])
    /\ UNCHANGED <<pvars, options, arg_root, disk, ROOT, result, stderr, log>>

\* lines 209-218: the entries the wildcard loop passes over
WildSkipped(e, n) ==
    \/ e.kind # "d"
    \/ is_ignored(BaseName(e))
    \/ \E i \in 1..Len(literal_children(n)) :
          rules[literal_children(n)[i]].name = BaseName(e)

\* lines 208-220: the next entry of the wildcard loop
WildEntry ==
    /\ Running("wild")
    /\ \E e \in Top.todo :
          frames' = SetTop(
              IF WildSkipped(e, Top.node)
              THEN [Top EXCEPT !.todo = @ \ {e}]
              ELSE [Top EXCEPT !.todo = @ \ {e}, !.pc = "match",
                               !.base = BaseName(e), !.j = 1, !.matched = FALSE])
    /\ UNCHANGED <<pvars, options, arg_root, disk, ROOT, result, stderr, log>>

\* lines 221-229: one wildcard child tested against the entry
WildMatch ==
    /\ Running("match")
    /\ Top.j <= Len(wildcard_children(Top.node))
    /\ LET child == wildcard_children(Top.node)[Top.j]
       IN  IF ~GlobMatch(Top.base, rules[child].name)
           THEN /\ frames' = SetTop([Top EXCEPT !.j = @ + 1])
                /\ UNCHANGED <<result, stderr, log>>
           ELSE IF Top.matched
           THEN /\ Fail("ambiguous directory rule for", Under(Top.rel, Top.base))
                /\ log' = Visit(6, Top.base)
           ELSE /\ frames' = Append(SetTop([Top EXCEPT !.j = @ + 1, !.matched = TRUE]),
                                    Frame(child, Under(Top.rel, Top.base)))
                /\ log' = Visit(6, Top.base)
                /\ UNCHANGED <<result, stderr>>
    /\ UNCHANGED <<pvars, options, arg_root, disk, ROOT>>

\* line 230: done with this entry
WildNext ==
    /\ Running("match")
    /\ Top.j > Len(wildcard_children(Top.node))
    /\ frames' = SetTop([Top EXCEPT !.pc = "wild"])
    /\ UNCHANGED <<pvars, options, arg_root, disk, ROOT, result, stderr, log>>

\* line 230: the loop ran out of entries
WildDone ==
    /\ Running("wild")
    /\ Top.todo = {}
    /\ frames' = SetTop([Top EXCEPT !.pc = "ret"])
    /\ UNCHANGED <<pvars, options, arg_root, disk, ROOT, result, stderr, log>>

\* line 232: rule_N returns to its caller
Return ==
    /\ Running("ret")
    /\ Len(frames) > 1
    /\ frames' = SubSeq(frames, 1, Len(frames) - 1)
    /\ UNCHANGED <<pvars, options, arg_root, disk, ROOT, result, stderr, log>>

\* lines 240-243: rule_1 returned; echo "dirc: ok", exit 0
Finish ==
    /\ Running("ret")
    /\ Len(frames) = 1
    /\ frames' = <<>>
    /\ result' = "ok"
    /\ UNCHANGED <<pvars, options, arg_root, disk, ROOT, stderr, log>>

Validate ==
    \/ Driver
    \/ CheckExists
    \/ CheckRequiredDirs
    \/ CheckRequiredFiles
    \/ ScanEntries
    \/ CallLiteral
    \/ LiteralDone
    \/ WildEntry
    \/ WildMatch
    \/ WildNext
    \/ WildDone
    \/ Return
    \/ Finish

----------------------------------------------------------------------------
(* The inputs the model draws: spec texts with directory trees to validate *)

Folder1 == <<"f", "o", "l", "d", "e", "r", "1">>

Folder2 == <<"f", "o", "l", "d", "e", "r", "2">>

DotPng == <<".", "p", "n", "g">>

Folder2Glob == <<"f", "o", "l", "d", "e", "r", "2", "-", "*", ".", "*">>

APng == <<"a", ".", "p", "n", "g">>

ReadmeTxt == <<"r", "e", "a", "d", "m", "e", ".", "t", "x", "t">>

ReadmeMd == <<"R", "E", "A", "D", "M", "E", ".", "m", "d">>

DotDirc == <<".", "d", "i", "r", "c">>

Folder2File == <<"f", "o", "l", "d", "e", "r", "2", "-", "a", ".", "b">>

Sp2 == <<" ", " ">>

Sp4 == <<" ", " ", " ", " ">>

D(path) == [path |-> path, kind |-> "d"]

F(path) == [path |-> path, kind |-> "f"]

\* folder1 holding *.png files, folder2 holding folder2-*.* files
TextFolders == <<Folder1, Sp4 \o DotPng, Folder2, Sp4 \o Folder2Glob>>

EntriesFolders ==
    { D(<<Folder1>>), F(<<Folder1, APng>>), F(<<Folder1, ReadmeTxt>>),
      D(<<Folder2>>), F(<<Folder2, Folder2File>>), F(<<ReadmeMd>>), F(<<DotDirc>>) }

\* two wildcard directory rules that overlap on p4
TextWild == << <<"p", "*">>, Sp2 \o <<".", "a">>, <<"*", "4", "/">> >>

EntriesWild ==
    { D(<< <<"p", "4">> >>), F(<< <<"p", "4">>, <<"r">> >>),
      F(<< <<"p", "4">>, <<"x", ".", "a">> >>),
      D(<< <<"p", "1">> >>), F(<< <<"p", "1">>, <<"r">> >>),
      D(<< <<"a", "4">> >>), D(<< <<"q">> >>) }

\* a literal directory rule beside two wildcard rules that both match its name
TextMixed == << <<"p", "4">>, <<"p", "*", "/">>, <<"*", "4", "/">> >>

EntriesMixed ==
    { D(<< <<"p", "4">> >>), F(<< <<"p", "4">>, <<"r">> >>),
      D(<< <<"p", "1", "4">> >>), D(<< <<"p", "1">> >>), D(<< DotGit >>),
      F(<< DotGit, <<"r">> >>) }

\* nested literal rules, a required file, a directory rule without contents
TextNested ==
    << <<"#", " ", "x">>, <<"l", "o", "g", "s">>, <<"s", "r", "c">>, Sp2 \o <<"m", ".", "x">>,
       Sp2 \o <<"s", "u", "b", "/">> >>

EntriesNested ==
    { D(<< <<"l", "o", "g", "s">> >>), F(<< <<"l", "o", "g", "s">>, <<"y">> >>),
      D(<< <<"s", "r", "c">> >>), F(<< <<"s", "r", "c">>, <<"m", ".", "x">> >>),
      D(<< <<"s", "r", "c">>, <<"m", ".", "x">> >>),
      D(<< <<"s", "r", "c">>, <<"s", "u", "b">> >>),
      F(<< <<"s", "r", "c">>, <<"s", "u", "b">>, <<"y">> >>),
      D(<< <<"s", "r", "c">>, <<"z">> >>), F(<< <<"y">> >>) }

\* a text parse_spec rejects: nothing is validated
TextBad == << <<"a">>, Sp2 \o <<"b">>, <<" ", " ", " ", "c">> >>

EntriesBad == { D(<< <<"a">> >>) }

\* a literal directory rule named like an item of the ignore list, beside a
\* wildcard rule that matches every name
TextIgnored == << DotGit \o <<"/">>, <<"*", "/">>, Sp2 \o <<".", "a">> >>

EntriesIgnored ==
    { D(<< DotGit >>), F(<< DotGit, <<"y">> >>), D(<< <<"r">> >>),
      F(<< <<"r">>, <<"y">> >>), D(<< <<"q">> >>), F(<< DotDirc >>) }

Scenarios ==
    { [text |-> TextFolders, universe |-> EntriesFolders],
      [text |-> TextIgnored, universe |-> EntriesIgnored],
      [text |-> TextWild,    universe |-> EntriesWild],
      [text |-> TextMixed,   universe |-> EntriesMixed],
      [text |-> TextNested,  universe |-> EntriesNested],
      [text |-> TextBad,     universe |-> EntriesBad] }

\* a set of entries is a tree when every entry's parent is a directory of it
\* and no path is both a file and a directory
IsTree(S) ==
    /\ \A e \in S : Len(e.path) > 1 =>
           D(SubSeq(e.path, 1, Len(e.path) - 1)) \in S
    /\ \A e1, e2 \in S : e1.path = e2.path => e1 = e2

Trees(universe) ==
    {S \in SUBSET universe : Cardinality(S) <= MaxEntries /\ IsTree(S)}

Present(S) == [exists |-> TRUE, ents |-> S]

Absent == [exists |-> FALSE, ents |-> {}]

ArgPath == <<"/", "r">>

\* $1 not given; $1 an existing directory; $1 not a directory
Invocations(S) ==
    { [arg |-> <<>>,    cwd |-> Present(S),  argdir |-> Absent],
      [arg |-> ArgPath, cwd |-> Present({}), argdir |-> Present(S)],
      [arg |-> ArgPath, cwd |-> Present(S),  argdir |-> Absent] }

IgnoreChoices == { <<>>, << <<"r">> >> }

OptionChoices ==
    { [ignore |-> ig, allow_extra_everywhere |-> a, strict_root |-> s,
       spec_basename |-> DotDirc] :
        ig \in IgnoreChoices, a \in BOOLEAN, s \in BOOLEAN }

ValidateInit(o, inv) ==
    /\ options = o
    /\ arg_root = inv.arg
    /\ disk = [cwd |-> inv.cwd, arg |-> inv.argdir]
    /\ ROOT = <<>>
    /\ frames = <<>>
    /\ result = "idle"
    /\ stderr = <<>>
    /\ log = <<>>

----------------------------------------------------------------------------
(* Spec: parse a spec text, compile it, and run the script on a directory *)

Init ==
    \E sc \in Scenarios, o \in OptionChoices :
        \E S \in Trees(sc.universe) :
            \E inv \in Invocations(S) :
                ParseInit(sc.text) /\ ValidateInit(o, inv)

Next == ParseStep \/ Validate

Spec == Init /\ [][Next]_vars

----------------------------------------------------------------------------
(* SpecParse: the parser alone, over every text of up to MaxLines lines drawn
   from IndentLines and every text of up to MaxClassLines lines drawn from
   ClassLines *)

\* lines that differ in indentation: 0, 2, 3 and 4 (a tab) columns, and a
\* comment line and a blank line indented by 3
IndentLines ==
    { <<"a">>, <<" ", " ", "a">>, <<" ", " ", " ", "a">>, <<"\t", "a">>,
      <<" ", " ", " ", "#", "x">>, <<" ", " ", " ">> }

\* lines that differ in content
ClassLines ==
    { <<"a">>, <<".", "p">>, <<"a", ".", "b">>, <<".", "p", "/">>, <<"/">>,
      <<"a", "*", " ", "#", "x">>, <<".", "p", "1", "2", "3", "4", "5">>,
      <<" ", " ", "a">>, <<" ", " ", ".", "p">>, <<" ", " ", " ", ".", "p">> }

TextsOver(lines, n) == UNION {[1..m -> lines] : m \in 1..n}

Texts == TextsOver(IndentLines, MaxLines) \cup TextsOver(ClassLines, MaxClassLines)

InitParse ==
    \E text \in Texts :
        /\ ParseInit(text)
        /\ ValidateInit([ignore |-> <<>>, allow_extra_everywhere |-> FALSE,
                         strict_root |-> FALSE, spec_basename |-> DotDirc],
                        [arg |-> <<>>, cwd |-> Present({}), argdir |-> Absent])

SpecParse == InitParse /\ [][ParseStep]_vars

----------------------------------------------------------------------------
(* SpecToken: the parser on every one-line text whose line is a token of up to
   MaxTokenLen characters of TokenChars *)

TokenChars == {".", "a", "{", "}", ",", "*", " "}

Tokens == UNION {[1..m -> TokenChars] : m \in 1..MaxTokenLen}

InitToken ==
    \E t \in Tokens :
        /\ ParseInit(<<t>>)
        /\ ValidateInit([ignore |-> <<>>, allow_extra_everywhere |-> FALSE,
                         strict_root |-> FALSE, spec_basename |-> DotDirc],
                        [arg |-> <<>>, cwd |-> Present({}), argdir |-> Absent])

SpecToken == InitToken /\ [][ParseStep]_vars

----------------------------------------------------------------------------
(* Vocabulary of the claims about parse_spec, stated on the text *)

\* a significant line: not blank, not a comment line
Significant(i) == ~IsBlank(raw_lines[i]) /\ ~IsCommentLine(raw_lines[i])

\* the tab-expanded indentation of a line
Indentation(i) == IndentOf(ExpandTabs(raw_lines[i]))

Least(S) == CHOOSE i \in S : \A j \in S : i <= j

Greatest(S) == CHOOSE i \in S : \A j \in S : i >= j

\* the first significant line with indentation > 0
UnitLines == {i \in 1..Len(raw_lines) : Significant(i) /\ Indentation(i) > 0}

\* the later significant lines whose indentation is no multiple of the unit
Offending ==
    IF UnitLines = {} THEN {}
    ELSE {i \in UnitLines : Indentation(i) % Indentation(Least(UnitLines)) # 0}

Finished == parsed \in {"ok", "error"}

----------------------------------------------------------------------------
(* C8 *)

\* C8, as stated: the indent unit is the indentation of the first significant
\* line indented by more than 0, and for every later significant line whose
\* indentation is no multiple of the unit, parse_spec raises a SpecError that
\* carries the number of exactly that line.
C8_EveryOffendingLineReported ==
    /\ indent_unit # None =>
          UnitLines # {} /\ indent_unit = Indentation(Least(UnitLines))
    /\ Finished => \A i \in Offending : parsed = "error" /\ err_line = i

\* C8, amended: the indent unit is the indentation of the first significant
\* line indented by more than 0 (blank and comment lines never set it); when
\* some later significant line's indentation is no multiple of the unit,
\* parse_spec returns no tree and raises a SpecError that carries the number of
\* a significant line, which is the first such line or a line before it (one
\* that an earlier check of the loop rejected); a text whose unit is 2 columns
\* with a later line at 3, or the reverse, is always rejected.
C8_FirstOffendingLineReported ==
    /\ indent_unit # None =>
          UnitLines # {} /\ indent_unit = Indentation(Least(UnitLines))
    /\ (UnitLines # {} /\ idx0 >= Least(UnitLines)) =>
          indent_unit = Indentation(Least(UnitLines))
    /\ parsed = "error" => err_line \in 1..Len(raw_lines) /\ Significant(err_line)
    /\ (Finished /\ Offending # {}) =>
          /\ parsed = "error"
          /\ err_line <= Least(Offending)
          /\ idx0 < Least(Offending)
    /\ (Finished /\ UnitLines # {}
            /\ \E i \in UnitLines :
                  {Indentation(Least(UnitLines)), Indentation(i)} = {2, 3}) =>
          parsed = "error"

\* a text with a blank or comment line indented by 3 before a unit of 2, whose
\* first line off the unit is the one the SpecError carries
C8_Witness ==
    /\ parsed = "error"
    /\ Offending # {}
    /\ err_line = Least(Offending)
    /\ Indentation(Least(UnitLines)) = 2
    /\ \E i \in 1..(Least(UnitLines) - 1) : ~Significant(i) /\ Indentation(i) = 3

----------------------------------------------------------------------------
(* C9 *)

\* the content of a line: inline comment cut, whitespace trimmed
ContentOf(i) == Strip(ContentRaw(raw_lines[i]))

\* the line ends in "/" and is not a lone "/"
SlashMarked(i) == EndsWith(ContentOf(i), <<"/">>) /\ ContentOf(i) # <<"/">>

\* the name a line declares: its content without the trailing "/" marker
NameOf(i) ==
    IF SlashMarked(i) THEN SubSeq(ContentOf(i), 1, Len(ContentOf(i)) - 1)
    ELSE ContentOf(i)

\* the next significant line is indented deeper
NestedDeeper(i) ==
    LET later == {j \in (i + 1)..Len(raw_lines) : Significant(j)}
    IN  later # {} /\ Indentation(Least(later)) > Indentation(i)

\* ".ext" with 1 to 5 alphanumerics
DotExt(t) ==
    Len(t) \in 2..6 /\ t[1] = "." /\ \A k \in 2..Len(t) : t[k] \in Alnum

\* the classification the claim gives, by priority
ClaimedKind(i) ==
    IF SlashMarked(i) \/ NestedDeeper(i) THEN "dir"
    ELSE IF DotExt(NameOf(i)) \/ \E c \in {"*", "?", "[", "{"} : Contains(NameOf(i), c)
         THEN "pattern"
    ELSE IF Contains(NameOf(i), ".") THEN "required"
    ELSE "dir"

\* the rule a directory line creates: rules are created in line order
DirLinesUpTo(i) ==
    {j \in 1..i : Significant(j) /\ ClaimedKind(j) = "dir"}

RuleOfLine(i) == IF i = 0 THEN 1 ELSE 1 + Cardinality(DirLinesUpTo(i))

\* the line that owns line i: the nearest significant line before it that is
\* indented less, or 0 for the root
OwnerLine(i) ==
    LET up == {j \in 1..(i - 1) : Significant(j) /\ Indentation(j) < Indentation(i)}
    IN  IF up = {} THEN 0 ELSE Greatest(up)

Range(f) == {f[x] : x \in DOMAIN f}

ListSizes(r) ==
    Len(rules[r].subdirs) + Len(rules[r].file_patterns) + Len(rules[r].required_files)

\* the number of items the lists of rules 1..n hold together
RECURSIVE TotalSizes(_)
TotalSizes(n) == IF n = 0 THEN 0 ELSE ListSizes(n) + TotalSizes(n - 1)

\* C9: in a returned tree every significant line is classified by the fixed
\* priority (trailing "/" or a deeper next line: directory; else .ext shorthand
\* or * ? [ {: file pattern; else a ".": required file; else directory), a
\* directory line's rule is named by the line without its "/" and sits under
\* the rule of the line that owns it, a file line sits in its owner's
\* file_patterns or required_files, and the owner is always a directory line;
\* at every step the lists hold exactly one item per line classified so far,
\* and the open-rule stack is a chain of directory rules from the root.
C9_ClassificationByPriority ==
    /\ TotalSizes(Len(rules))
          = Cardinality({i \in 1..Len(kinds) : kinds[i] \in {"dir", "pattern", "required"}})
    /\ Len(rules) = 1 + Cardinality({i \in 1..Len(kinds) : kinds[i] = "dir"})
    /\ stack # <<>> /\ stack[1] = 1
    /\ \A m \in 2..Len(stack) : stack[m] \in Range(rules[stack[m - 1]].subdirs)
    /\ parsed = "ok" =>
          \A i \in 1..Len(raw_lines) :
              IF ~Significant(i) THEN kinds[i] = "skip"
              ELSE /\ kinds[i] = ClaimedKind(i)
                   /\ OwnerLine(i) # 0 => ClaimedKind(OwnerLine(i)) = "dir"
                   /\ LET owner == rules[RuleOfLine(OwnerLine(i))]
                      IN  CASE ClaimedKind(i) = "dir" ->
                                 /\ RuleOfLine(i) \in Range(owner.subdirs)
                                 /\ rules[RuleOfLine(i)].name = NameOf(i)
                            [] ClaimedKind(i) = "required" ->
                                 NameOf(i) \in Range(owner.required_files)
                            [] OTHER ->
                                 NormalizePattern(NameOf(i)) \in Range(owner.file_patterns)

\* a returned tree in which a line that looks like a file (.p) owns a child,
\* next to a file pattern and a required file
C9_Witness ==
    /\ parsed = "ok"
    /\ \E i \in 1..Len(raw_lines) :
          /\ Significant(i) /\ ContentOf(i) = <<".", "p">> /\ NestedDeeper(i)
          /\ rules[RuleOfLine(i)].name = <<".", "p">>
          /\ ListSizes(RuleOfLine(i)) = 1
    /\ \E i \in 1..Len(kinds) : kinds[i] \in {"pattern", "required"}

----------------------------------------------------------------------------
(* C10 *)

\* the file patterns stored anywhere in the tree
StoredPatterns == UNION {Range(rules[r].file_patterns) : r \in 1..Len(rules)}

\* the pattern the normalisation rules call for: whitespace removed, "*.*"
\* turned into "*", every brace list rewritten to an @( ) alternation with
\* empty alternatives dropped, and a leading dot given a "*" in front
C10_Expected(token) ==
    LET s == RemoveWhitespace(token)
        r == RewriteBraces(s)
    IN  IF s = <<"*", ".", "*">> THEN <<"*">>
        ELSE IF StartsWith(r, <<".">>) /\ ~Contains(r, "/") THEN <<"*">> \o r
        ELSE r

\* C10, as stated: the pattern stored for a token classified as a file pattern
\* holds no whitespace, is "*" for "*.*", is "*.ext" for a bare ".ext", and has
\* every brace list of the token rewritten to an @( ) alternation, tokens that
\* begin with a dot included.
C10_StoredPatternNormalized ==
    \A i \in 1..Len(kinds) :
        kinds[i] = "pattern" =>
            LET stored == rules[RuleOfLine(OwnerLine(i))].file_patterns
            IN  \E k \in 1..Len(stored) :
                    /\ ~\E c \in Range(stored[k]) : IsSpace(c)
                    /\ stored[k] = C10_Expected(ContentOf(i))

----------------------------------------------------------------------------
(* Vocabulary of the claims about the generated script, stated on the tree it
   reads and on the log of the checks it made *)

\* the entries of a directory that the ignore list does not hide
Kept(rel) == {e \in Entries(ROOT, rel) : ~is_ignored(BaseName(e))}

\* the allow-extra flag a node is due: allow_extra_everywhere, or the node is
\* the synthetic root (node 1) and strict_root is not set
FlagDue(n) == options.allow_extra_everywhere \/ (n = 1 /\ ~options.strict_root)

\* the required subdirectories (by position) that a directory lacks
MissingDirs(n, rel) ==
    {i \in 1..Len(required_dirs(n)) : ~IsDir(ROOT, Under(rel, required_dirs(n)[i]))}

\* the required files (by position) that a directory lacks
MissingFiles(n, rel) ==
    {i \in 1..Len(required_files(n)) : ~IsFile(ROOT, Under(rel, required_files(n)[i]))}

\* the entries that match no allowed name of the rule
Unmatched(n, rel) ==
    {e \in Kept(rel) :
        ~matches_any(BaseName(e),
                     IF e.kind = "d" THEN allowed_dirs(n) ELSE allowed_files(n))}

\* the subdirectories the wildcard children of a rule are tried on
WildCandidates(n, rel) ==
    {e \in Kept(rel) :
        /\ e.kind = "d"
        /\ \A i \in 1..Len(literal_children(n)) :
              rules[literal_children(n)[i]].name # BaseName(e)}

\* the wildcard children (by position) whose pattern matches a name
Matching(n, base) ==
    {j \in 1..Len(wildcard_children(n)) :
        GlobMatch(base, rules[wildcard_children(n)[j]].name)}

\* the subdirectories that more than one wildcard child matches
Ambiguous(n, rel) ==
    {e \in WildCandidates(n, rel) : Cardinality(Matching(n, BaseName(e))) > 1}

\* log entries of one call of a node's routine
SameCall(i, j) == log[i].node = log[j].node /\ log[i].rel = log[j].rel

Earlier(j) == {i \in 1..(j - 1) : SameCall(i, j)}

PhasesOf(S) == {log[i].phase : i \in S}

CallsIn(S, phase) == {i \in S : log[i].phase = phase}

----------------------------------------------------------------------------
(* C1 *)

\* each call makes its checks in the order 1 existence, 2 required
\* directories, 3 required files, 4 entry scan, 5 literal children in
\* declaration order, 6 wildcard children; a call is entered right after the
\* step of its caller that made it
C1_InOrder ==
    \A j \in 1..Len(log) :
        LET e == log[j]
            before == Earlier(j)
        IN  /\ \A i \in before : log[i].phase <= e.phase
            /\ e.phase <= 4 =>
                  /\ PhasesOf(before) = 1..(e.phase - 1)
                  /\ Cardinality(before) = e.phase - 1
            /\ e.phase >= 5 => (1..4) \subseteq PhasesOf(before)
            /\ e.phase = 5 =>
                  LET k == Cardinality(CallsIn(before, 5)) + 1
                  IN  /\ k <= Len(literal_children(e.node))
                      /\ e.what = rules[literal_children(e.node)[k]].name
                      /\ j < Len(log) => log[j + 1].node = literal_children(e.node)[k]
            /\ e.phase = 6 =>
                  /\ Cardinality(CallsIn(before, 5)) = Len(literal_children(e.node))
                  /\ \E x \in WildCandidates(e.node, e.rel) : BaseName(x) = e.what
            /\ e.phase = 1 =>
                  \/ j = 1 /\ e.node = 1 /\ e.rel = <<".">> /\ e.depth = 1
                  \/ /\ j > 1
                     /\ log[j - 1].phase \in {5, 6}
                     /\ log[j - 1].depth = e.depth - 1
                     /\ e.rel = Under(log[j - 1].rel, log[j - 1].what)
            /\ (e.phase \in {5, 6} /\ j < Len(log)) =>
                  log[j + 1].phase = 1 /\ log[j + 1].depth = e.depth + 1

\* what the check of a log entry finds on the tree
C1_Passes(e) ==
    CASE e.phase = 1 -> IsDir(ROOT, e.rel)
      [] e.phase = 2 -> MissingDirs(e.node, e.rel) = {}
      [] e.phase = 3 -> MissingFiles(e.node, e.rel) = {}
      [] e.phase = 4 -> FlagDue(e.node) \/ Unmatched(e.node, e.rel) = {}
      [] OTHER       -> TRUE

\* the one diagnostic is the finding of the last check made
C1_Reports(e, d) ==
    CASE e.phase = 1 ->
            ~IsDir(ROOT, e.rel) /\ d.cause = "missing directory" /\ d.path = e.rel
      [] e.phase = 2 ->
            /\ MissingDirs(e.node, e.rel) # {}
            /\ d.cause = "missing required directory"
            /\ d.path = Under(e.rel, required_dirs(e.node)[Least(MissingDirs(e.node, e.rel))])
      [] e.phase = 3 ->
            /\ MissingFiles(e.node, e.rel) # {}
            /\ d.cause = "missing required file"
            /\ d.path = Under(e.rel, required_files(e.node)[Least(MissingFiles(e.node, e.rel))])
      [] e.phase = 4 ->
            /\ ~FlagDue(e.node)
            /\ \E x \in Unmatched(e.node, e.rel) :
                  /\ d.path = Under(e.rel, BaseName(x))
                  /\ d.cause = IF x.kind = "d" THEN "unexpected directory"
                               ELSE "unexpected file"
      [] e.phase = 6 ->
            /\ Cardinality(Matching(e.node, e.what)) > 1
            /\ d.cause = "ambiguous directory rule for"
            /\ d.path = Under(e.rel, e.what)
      [] OTHER -> FALSE

\* a run that ends with ok made every check of every call
C1_Complete ==
    \A j \in 1..Len(log) :
        log[j].phase = 1 =>
            LET e == log[j]
                mine == {i \in 1..Len(log) : SameCall(i, j)}
            IN  /\ (1..4) \subseteq PhasesOf(mine)
                /\ Cardinality(CallsIn(mine, 5)) = Len(literal_children(e.node))
                /\ \A x \in WildCandidates(e.node, e.rel) :
                      Matching(e.node, BaseName(x)) # {} =>
                          \E i \in CallsIn(mine, 6) : log[i].what = BaseName(x)

C1_FailFast ==
    /\ C1_InOrder
    /\ Len(stderr) <= 1
    /\ (result = "fail") = (Len(stderr) = 1)
    /\ \A j \in 1..Len(log) :
          (j < Len(log) \/ result # "fail") => C1_Passes(log[j])
    /\ result = "fail" => log # <<>> /\ C1_Reports(log[Len(log)], stderr[1])
    /\ result = "ok" => C1_Complete

\* C1: every call of a node's routine checks, in this order, the existence of
\* its directory, its required subdirectories, its required files and its
\* actual entries, then calls its literal children in declaration order and
\* then its wildcard children; every check made before the last one passed,
\* the one diagnostic of a failed run is the finding of the last check made,
\* and after a failure the script takes no further step.
C1_FixedOrderFirstViolation ==
    /\ []C1_FailFast
    /\ [][result # "fail"]_vars

\* a run that failed on a required file of the second literal child of the
\* root, after the first literal child was checked through and the required
\* subdirectories of the second were found
C1_Witness ==
    /\ result = "fail"
    /\ stderr[1].cause = "missing required file"
    /\ Len(frames) = 2
    /\ Cardinality({i \in 1..Len(log) : log[i].phase = 5 /\ log[i].depth = 1}) = 2
    /\ required_dirs(Top.node) # <<>>

----------------------------------------------------------------------------
(* C2 *)

\* C2, as stated: a subdirectory that more than one wildcard child matches is
\* rejected at once as ambiguous: a step of the wildcard loop on such a
\* subdirectory is never a call of a child's routine on it, it is the failure
\* that names it, so that no rule is ever bound to it and no finding from
\* inside it is reported.
C2_AmbiguousRejectedAtOnce ==
    /\ \A j \in 1..Len(log) :
          (log[j].phase = 6 /\ Cardinality(Matching(log[j].node, log[j].what)) > 1) =>
              /\ j = Len(log)
              /\ result = "fail"
              /\ stderr[1].cause = "ambiguous directory rule for"
              /\ stderr[1].path = Under(log[j].rel, log[j].what)
    /\ \A d \in 2..Len(frames) :
          \A x \in Ambiguous(frames[d - 1].node, frames[d - 1].rel) :
              frames[d].rel # Under(frames[d - 1].rel, BaseName(x))

----------------------------------------------------------------------------
(* C3 *)

\* the last check made failed with an unexpected-entry diagnostic
C3_FailedAsUnexpected(j) ==
    /\ j = Len(log)
    /\ result = "fail"
    /\ \E x \in Unmatched(log[j].node, log[j].rel) :
          /\ stderr[1].path = Under(log[j].rel, BaseName(x))
          /\ stderr[1].cause = IF x.kind = "d" THEN "unexpected directory"
                               ELSE "unexpected file"

\* C3: the allow-extra flag of every call is allow_extra_everywhere, or the
\* node is the synthetic root and strict_root is not set; the synthetic root is
\* the one node bound to "."; and the entry scan of a call fails, as
\* unexpected, exactly when the flag is not set and some entry that is not
\* ignored matches no allowed name, in the root and in every declared
\* subdirectory, one without children, patterns or required files included.
C3_AllowExtraFlag ==
    /\ \A d \in 1..Len(frames) :
          /\ frames[d].allow_extra = FlagDue(frames[d].node)
          /\ (frames[d].node = 1) = (d = 1)
          /\ (frames[d].rel = <<".">>) = (d = 1)
    /\ \A j \in 1..Len(log) :
          log[j].phase = 4 =>
              (C3_FailedAsUnexpected(j) =
                  (~FlagDue(log[j].node) /\ Unmatched(log[j].node, log[j].rel) # {}))

\* no children, no file patterns, no required files
C3_Bare(n) ==
    rules[n].subdirs = <<>> /\ rules[n].file_patterns = <<>> /\ rules[n].required_files = <<>>

\* under the default options, a file in a declared directory without contents
\* was rejected as unexpected after the root let an undeclared entry pass
C3_Witness ==
    /\ result = "fail"
    /\ ~options.allow_extra_everywhere /\ ~options.strict_root
    /\ stderr[1].cause = "unexpected file"
    /\ Len(frames) = 2
    /\ C3_Bare(Top.node)
    /\ Unmatched(1, <<".">>) # {}

----------------------------------------------------------------------------
(* C4 *)

\* a rule bound to a directory holds there and, below it, every rule bound to
\* a literal child path or to a subdirectory a wildcard child matches
RECURSIVE C4_Sound(_, _)
C4_Sound(n, rel) ==
    /\ IsDir(ROOT, rel)
    /\ MissingDirs(n, rel) = {}
    /\ MissingFiles(n, rel) = {}
    /\ FlagDue(n) \/ Unmatched(n, rel) = {}
    /\ Ambiguous(n, rel) = {}
    /\ \A i \in 1..Len(literal_children(n)) :
          C4_Sound(literal_children(n)[i],
                   Under(rel, rules[literal_children(n)[i]].name))
    /\ \A x \in WildCandidates(n, rel) :
          \A j \in Matching(n, BaseName(x)) :
              C4_Sound(wildcard_children(n)[j], Under(rel, BaseName(x)))

\* C4: when the run ends with ok, every directory a rule is bound to (the
\* root, every literal child path, every subdirectory matched by a wildcard
\* child) has all required subdirectories and required files of the rule,
\* every entry that is not ignored matches an allowed name or the allow-extra
\* flag of the node is set, and no subdirectory is matched by more than one
\* sibling wildcard; and every such directory was visited by the run.
C4_OkIsSound ==
    result = "ok" =>
        /\ C4_Sound(1, <<".">>)
        /\ \A j \in 1..Len(log) :
              log[j].phase = 1 => C1_Passes(log[j]) /\ Ambiguous(log[j].node, log[j].rel) = {}

\* a strict run that ended with ok after binding wildcard children to two
\* subdirectories
C4_Witness ==
    /\ result = "ok"
    /\ options.strict_root /\ ~options.allow_extra_everywhere
    /\ Cardinality(CallsIn(1..Len(log), 6)) >= 2

----------------------------------------------------------------------------
(* C5 *)

DefaultOptions ==
    [ignore |-> <<>>, allow_extra_everywhere |-> FALSE, strict_root |-> FALSE,
     spec_basename |-> DotDirc]

\* the scenario: the text of folder1 and folder2, default options, and a root
\* that holds only folder1 with a.png and readme.txt; the run has ended
C5_Scenario ==
    /\ raw_lines = TextFolders
    /\ options = DefaultOptions
    /\ result \in {"ok", "fail"}
    /\ TreeAt(ROOT) =
          Present({D(<<Folder1>>), F(<<Folder1, APng>>), F(<<Folder1, ReadmeTxt>>)})

\* C5, as stated: the scenario fails, and its one diagnostic is the unexpected
\* file readme.txt in folder1, with the path folder1/readme.txt.
C5_ReportsUnexpectedFile ==
    C5_Scenario =>
        /\ result = "fail"
        /\ Len(stderr) = 1
        /\ stderr[1].cause = "unexpected file"
        /\ stderr[1].path = Folder1 \o <<"/">> \o ReadmeTxt

\* C5, amended: the scenario fails, and its one diagnostic is the missing
\* required directory folder2, with the path ./folder2; the required
\* directories of the root are checked before folder1 is entered, so that
\* readme.txt is never looked at.
C5_ReportsMissingFolder2 ==
    C5_Scenario =>
        /\ result = "fail"
        /\ Len(stderr) = 1
        /\ stderr[1].cause = "missing required directory"
        /\ stderr[1].path = <<".", "/">> \o Folder2
        /\ Len(frames) = 1
        /\ \A j \in 1..Len(log) : log[j].node = 1 /\ log[j].phase <= 2

\* the scenario was run to its end
C5_Witness == C5_Scenario /\ arg_root = <<>> /\ stderr # <<>>

----------------------------------------------------------------------------
(* C6 *)

\* C6, as stated: when the root path given is no directory, the run fails with
\* the cause "missing directory", it never ends with ok, and it validates no
\* other directory.
C6_MissingRootFails ==
    (arg_root # <<>> /\ ~disk.arg.exists) =>
        /\ result # "ok"
        /\ ROOT \in {<<>>, arg_root}
        /\ result = "fail" => stderr[1].cause = "missing directory"

----------------------------------------------------------------------------
(* C7 *)

\* the names of a path joined by "/"
RECURSIVE JoinPath(_)
JoinPath(segs) ==
    IF segs = <<>> THEN <<>>
    ELSE IF Len(segs) = 1 THEN segs[1]
    ELSE segs[1] \o <<"/">> \o JoinPath(Tail(segs))

\* the entry a diagnostic is about is as the cause says
C7_About(d) ==
    LET p == Segs(d.path)
        t == TreeAt(ROOT).ents
    IN  CASE d.cause = "missing directory"            -> D(p) \notin t
          [] d.cause = "missing required directory"   -> p # <<>> /\ D(p) \notin t
          [] d.cause = "missing required file"        -> p # <<>> /\ F(p) \notin t
          [] d.cause = "unexpected directory"         -> D(p) \in t
          [] d.cause = "unexpected file"              -> F(p) \in t
          [] d.cause = "ambiguous directory rule"     -> D(p) \in t
          [] d.cause = "ambiguous directory rule for" -> D(p) \in t
          [] OTHER -> FALSE

----------------------------------------------------------------------------
(* C11 *)

\* the patterns that hide an entry: those the caller gave, .git, and the
\* basename of the spec file
C11_Patterns == Range(options.ignore) \cup {DotGit, options.spec_basename}

C11_Hidden(base) == \E pat \in C11_Patterns : GlobMatch(base, pat)

\* the last name of a path string
C11_LastName(rel) == Segs(rel)[Len(Segs(rel))]

\* the parts of C11 that concern the list, the entry scan and the wildcard
\* children: the list in effect holds every pattern given, .git and the spec
\* file's basename; no hidden entry is reported as unexpected; no wildcard
\* child is tried on a hidden subdirectory
C11_HiddenFromScanAndWildcards ==
    /\ Range(IgnoreItems) = C11_Patterns
    /\ \A base \in {BaseName(e) : e \in TreeAt(ROOT).ents} :
          is_ignored(base) = C11_Hidden(base)
    /\ (result = "fail"
          /\ stderr[1].cause \in {"unexpected file", "unexpected directory"}) =>
              ~C11_Hidden(C11_LastName(stderr[1].path))
    /\ \A j \in 1..Len(log) : log[j].phase = 6 => ~C11_Hidden(log[j].what)

\* C11, as stated: the ignore list in effect always holds .git and the spec
\* file's basename, whatever list was given; an entry whose basename matches
\* an ignore pattern is never reported as unexpected, and no child rule of the
\* directory that holds it is ever tried on it or bound to it, under every
\* combination of the options.
C11_IgnoredIsInvisible ==
    /\ C11_HiddenFromScanAndWildcards
    /\ \A j \in 1..Len(log) : log[j].phase = 5 => ~C11_Hidden(log[j].what)
    /\ \A d \in 2..Len(frames) : ~C11_Hidden(C11_LastName(frames[d].rel))

====
